---- MODULE Spec2Model ----
(***************************************************************************)
(* Model of html_editor's Editable operations (src/src/operation/edit.rs): *)
(* trim, insert_to, remove_by, replace_with and execute_for, implemented   *)
(* once for Vec<Node> and once for Element.                                *)
(*                                                                         *)
(* A Node is a record with a "kind" field:                                 *)
(*   [kind |-> "Doctype", text |-> s]     [kind |-> "Comment", text |-> s] *)
(*   [kind |-> "Text", text |-> s]                                         *)
(*   [kind |-> "Element", name |-> n, attrs |-> as, children |-> ns]       *)
(* A string (a text s, a name n, an attribute key or value) is a sequence   *)
(* of characters; a character is a one-character string, or "U+XXXX" for a *)
(* code point that has no printable ASCII form.  attrs is a sequence of    *)
(* <<key, value>> pairs and children is a sequence of Nodes.               *)
(***************************************************************************)
EXTENDS Integers, Sequences, FiniteSets, TLC

\* Largest number of nodes of a document the operations are run on.
MaxNodes == 3

\* Nesting depth of execute_for's recursion at which the call stack is
\* exhausted (the process aborts).  Every operation recurses as deep as the
\* document is nested; the documents of the universe are shallower than
\* this, so only recursion the visitor itself feeds reaches it.
StackLimit == 6

(***************************************************************************)
(* Node constructors                                                       *)
(***************************************************************************)
Doctype(s) == [kind |-> "Doctype", text |-> s]
Comment(s) == [kind |-> "Comment", text |-> s]
Text(s) == [kind |-> "Text", text |-> s]
Element(n, as, ns) == [kind |-> "Element", name |-> n, attrs |-> as, children |-> ns]

IsElement(node) == node.kind = "Element"

(***************************************************************************)
(* str::trim().is_empty() on a text                                        *)
(***************************************************************************)
\* char::is_whitespace: the code points of Unicode's White_Space property.
IsWhitespace(c) ==
  c \in { "\t", "\n", "U+000B", "\f", "\r", " ", "U+0085", "U+00A0", "U+1680",
          "U+2000", "U+2001", "U+2002", "U+2003", "U+2004", "U+2005", "U+2006",
          "U+2007", "U+2008", "U+2009", "U+200A", "U+2028", "U+2029", "U+202F",
          "U+205F", "U+3000" }

RECURSIVE TrimStart(_)
TrimStart(s) ==
  IF s # <<>> /\ IsWhitespace(Head(s)) THEN TrimStart(Tail(s)) ELSE s

RECURSIVE TrimEnd(_)
TrimEnd(s) ==
  IF s # <<>> /\ IsWhitespace(s[Len(s)]) THEN TrimEnd(SubSeq(s, 1, Len(s) - 1)) ELSE s

StrTrim(s) == TrimEnd(TrimStart(s))

(***************************************************************************)
(* Selector: a predicate over one Element.  The kinds are                  *)
(*   tag    the element's name equals sel.name                             *)
(*   class  the element carries the attribute (class, sel.value)           *)
(*   empty  the element has no children                                    *)
(*   parent the element has at least one Element child                     *)
(***************************************************************************)
ClassKey == <<"c", "l", "a", "s", "s">>

Matches(sel, el) ==
  CASE sel.kind = "tag" -> el.name = sel.name
    [] sel.kind = "class" ->
         \E i \in 1..Len(el.attrs) : el.attrs[i] = <<ClassKey, sel.value>>
    [] sel.kind = "empty" -> el.children = <<>>
    [] sel.kind = "parent" ->
         \E i \in 1..Len(el.children) : IsElement(el.children[i])

Selectors ==
  { [kind |-> "tag", name |-> <<"a">>],
    [kind |-> "class", value |-> <<"x">>],
    [kind |-> "empty"],
    [kind |-> "parent"] }

\* A shape that is no shape: the element is handed over with its children.
ShapeOfWithChildren(el) == el

\* The Element { name, attrs, children: vec![] } that insert_to and remove_by
\* of Vec<Node> hand to the selector.
ShapeOf(el) == Element(el.name, el.attrs, <<>>)

(***************************************************************************)
(* trim                                                                    *)
(***************************************************************************)
\* retain's closure without the trim(): only the empty text goes.
TrimKeepUntrimmed(node) ==
  CASE node.kind = "Doctype" -> TRUE
    [] node.kind = "Comment" -> FALSE
    [] node.kind = "Text" -> node.text # <<>>
    [] node.kind = "Element" -> TRUE

\* The closure given to retain.
TrimKeep(node) ==
  CASE node.kind = "Doctype" -> TRUE
    [] node.kind = "Comment" -> FALSE
    [] node.kind = "Text" -> StrTrim(node.text) # <<>>
    [] node.kind = "Element" -> TRUE

RECURSIVE VecTrim(_)
VecTrim(nodes) ==
  LET kept == SelectSeq(nodes, TrimKeep)   \* self.retain(..)
  IN [i \in 1..Len(kept) |->
        IF IsElement(kept[i])
        THEN [kept[i] EXCEPT !.children = VecTrim(kept[i].children)]
        ELSE kept[i]]

ElementTrim(el) == [el EXCEPT !.children = VecTrim(el.children)]

(***************************************************************************)
(* insert_to                                                               *)
(***************************************************************************)
RECURSIVE VecInsertTo(_, _, _)
VecInsertTo(nodes, sel, target) ==
  [i \in 1..Len(nodes) |->
     IF IsElement(nodes[i])
     THEN LET children == VecInsertTo(nodes[i].children, sel, target)
          IN [nodes[i] EXCEPT !.children =
                IF Matches(sel, ShapeOf(nodes[i])) THEN Append(children, target) ELSE children]
     ELSE nodes[i]]

ElementInsertTo(el, sel, target) ==
  LET inserted == [el EXCEPT !.children = VecInsertTo(el.children, sel, target)]
  IN IF Matches(sel, inserted)
     THEN [inserted EXCEPT !.children = Append(inserted.children, target)]
     ELSE inserted

(***************************************************************************)
(* remove_by                                                               *)
(***************************************************************************)
\* retain's closure testing the element as it is, children included.
RemoveKeepTrueValue(sel, node) ==
  IF IsElement(node) THEN ~Matches(sel, node) ELSE TRUE

\* The closure given to retain.
RemoveKeep(sel, node) ==
  IF IsElement(node) THEN ~Matches(sel, ShapeOf(node)) ELSE TRUE

RECURSIVE VecRemoveBy(_, _), ElementRemoveBy(_, _)
VecRemoveBy(nodes, sel) ==
  LET Keep(node) == RemoveKeep(sel, node)
      kept == SelectSeq(nodes, Keep)   \* self.retain(..)
  IN [i \in 1..Len(kept) |->
        IF IsElement(kept[i]) THEN ElementRemoveBy(kept[i], sel) ELSE kept[i]]

ElementRemoveBy(el, sel) == [el EXCEPT !.children = VecRemoveBy(el.children, sel)]

(***************************************************************************)
(* replace_with                                                            *)
(*                                                                         *)
(* The transform f is a record [fail, out]: it returns Err on the elements *)
(* f.fail names and otherwise the node f.out names; the transform of test  *)
(* replace (out "hello_world") indexes the element's first child and       *)
(* panics when there is none.  Every call of the transform is logged in    *)
(* calls, with the element it was handed and the path of that element in   *)
(* the receiver (path and calls observe the run; the code does not read    *)
(* them).                                                                  *)
(***************************************************************************)
\* Htmlifiable::html of the nodes a transform reads.
VoidTags ==
  { <<"a", "r", "e", "a">>, <<"b", "a", "s", "e">>, <<"b", "r">>, <<"c", "o", "l">>,
    <<"e", "m", "b", "e", "d">>, <<"h", "r">>, <<"i", "m", "g">>,
    <<"i", "n", "p", "u", "t">>, <<"l", "i", "n", "k">>, <<"m", "e", "t", "a">>,
    <<"p", "a", "r", "a", "m">>, <<"s", "o", "u", "r", "c", "e">>,
    <<"t", "r", "a", "c", "k">>, <<"w", "b", "r">> }

RECURSIVE AttrsHtml(_)
AttrsHtml(attrs) ==
  IF attrs = <<>> THEN <<>>
  ELSE LET k == attrs[1][1]
           v == attrs[1][2]
           one == IF v = <<>> THEN k ELSE k \o <<"=", "\"">> \o v \o <<"\"">>
       IN IF Len(attrs) = 1 THEN one ELSE one \o <<" ">> \o AttrsHtml(Tail(attrs))

RECURSIVE Html(_), NodesHtml(_)
Html(node) ==
  CASE node.kind = "Text" -> node.text
    [] node.kind = "Comment" -> <<"<", "!", "-", "-">> \o node.text \o <<"-", "-", ">">>
    [] node.kind = "Doctype" ->
         <<"<", "!", "D", "O", "C", "T", "Y", "P", "E", " ">> \o node.text \o <<">">>
    [] node.kind = "Element" ->
         LET open == <<"<">> \o node.name
                     \o (IF node.attrs = <<>> THEN <<>> ELSE <<" ">> \o AttrsHtml(node.attrs))
                     \o <<">">>
         IN IF node.name \in VoidTags THEN open
            ELSE open \o NodesHtml(node.children) \o <<"<", "/">> \o node.name \o <<">">>

NodesHtml(nodes) ==
  IF nodes = <<>> THEN <<>> ELSE Html(nodes[1]) \o NodesHtml(Tail(nodes))

TransformFails(f, el) ==
  CASE f.fail = "never" -> FALSE
    [] f.fail = "name_b" -> el.name = <<"b">>
    [] f.fail = "childless" -> el.children = <<>>

\* p.children[0] of the transform of test replace: index out of bounds on an
\* element without children.
TransformPanics(f, el) == f.out = "hello_world" /\ el.children = <<>>

\* The closure of test replace: a <p> without attributes that holds one
\* Text, the html of the element's first child followed by " World!".
HelloWorld(el) ==
  Element(<<"p">>, <<>>,
          <<Text(Html(el.children[1]) \o <<" ", "W", "o", "r", "l", "d", "!">>)>>)

TransformNode(f, el) ==
  CASE f.out = "comment" -> Comment(el.name)
    [] f.out = "element" -> Element(el.name, el.attrs, <<Text(<<"r">>)>>)
    [] f.out = "hello_world" -> HelloWorld(el)

Call(f, el) ==
  IF TransformFails(f, el) THEN [ok |-> FALSE, panic |-> FALSE]
  ELSE IF TransformPanics(f, el) THEN [ok |-> FALSE, panic |-> TRUE]
  ELSE [ok |-> TRUE, panic |-> FALSE, node |-> TransformNode(f, el)]

Transforms ==
  { [fail |-> "never", out |-> "element"],
    [fail |-> "name_b", out |-> "comment"],
    [fail |-> "childless", out |-> "element"],
    [fail |-> "never", out |-> "hello_world"] }

\* The test of insert_to and remove_by in place of replace_with's.
ReplaceMatchesShape(sel, el) == Matches(sel, ShapeOf(el))

\* The test that decides whether a member is replaced.
ReplaceMatches(sel, el) == Matches(sel, el)

\* The nested call's Result propagated with ?.
NestedPropagates(sub) == sub.ok

\* What the loop does with the Result of the nested call on a member that
\* does not match: the Result is dropped, the loop goes on.
NestedContinues(sub) == TRUE

\* The failing member taken out of the sequence before the failure is
\* returned.
TransformErrDropsMember(nodes, i, calls) ==
  [nodes |-> SubSeq(nodes, 1, i - 1) \o SubSeq(nodes, i + 1, Len(nodes)),
   ok |-> FALSE, panic |-> FALSE, calls |-> calls]

\* The ? on the transform's Err for member i: the call returns the failure
\* before anything is assigned, the members stay as they are.
TransformErr(nodes, i, calls) ==
  [nodes |-> nodes, ok |-> FALSE, panic |-> FALSE, calls |-> calls]

\* A panic of the transform unwinds through every frame of replace_with,
\* whatever the frame does with a Result; the members stay as they are.
Unwind(nodes, calls) == [nodes |-> nodes, ok |-> FALSE, panic |-> TRUE, calls |-> calls]

RECURSIVE VecReplaceWithLoop(_, _, _, _, _, _), ElementReplaceWith(_, _, _, _, _)
\* The for loop of Vec<Node>::replace_with, about to process member i.
VecReplaceWithLoop(nodes, i, sel, f, path, calls) ==
  IF i > Len(nodes) THEN [nodes |-> nodes, ok |-> TRUE, panic |-> FALSE, calls |-> calls]
  ELSE IF ~IsElement(nodes[i]) THEN VecReplaceWithLoop(nodes, i + 1, sel, f, path, calls)
  ELSE IF ReplaceMatches(sel, nodes[i])
  THEN LET r == Call(f, nodes[i])
           logged == Append(calls, [path |-> Append(path, i), el |-> nodes[i]])
       IN IF r.panic THEN Unwind(nodes, logged)
          ELSE IF r.ok
          THEN VecReplaceWithLoop([nodes EXCEPT ![i] = r.node], i + 1, sel, f, path, logged)
          ELSE TransformErr(nodes, i, logged)
  ELSE LET sub == ElementReplaceWith(nodes[i], sel, f, Append(path, i), calls)
           nested == [nodes EXCEPT ![i] = sub.el]
       IN IF sub.panic THEN Unwind(nested, sub.calls)
          ELSE IF NestedContinues(sub)
          THEN VecReplaceWithLoop(nested, i + 1, sel, f, path, sub.calls)
          ELSE [nodes |-> nested, ok |-> FALSE, panic |-> FALSE, calls |-> sub.calls]

VecReplaceWith(nodes, sel, f, path, calls) == VecReplaceWithLoop(nodes, 1, sel, f, path, calls)

ElementReplaceWith(el, sel, f, path, calls) ==
  LET r == VecReplaceWith(el.children, sel, f, path, calls)
  IN [el |-> [el EXCEPT !.children = r.nodes], ok |-> r.ok, panic |-> r.panic,
      calls |-> r.calls]

(***************************************************************************)
(* execute_for                                                             *)
(*                                                                         *)
(* The visitor f is one of                                                 *)
(*   push_attr       elem.attrs.push(("class", "input"))                   *)
(*   append_child    elem.children.push(an element of elem's name and      *)
(*                   attributes, without children)                         *)
(*   append_wrapped  elem.children.push(<x> holding such an element)       *)
(*   append_marked   unless elem carries the attribute seen:                *)
(*                   elem.children.push(such an element, marked seen)      *)
(*   clear_children  elem.children.clear()                                 *)
(* Every call of the visitor is logged in calls as for replace_with.       *)
(* depth counts the elements the recursion is nested in; at StackLimit the *)
(* stack is exhausted and the run ends with overflow set.                  *)
(***************************************************************************)
AppendedChild(el) == Element(el.name, el.attrs, <<>>)

SeenKey == <<"s", "e", "e", "n">>

Visit(f, el) ==
  CASE f = "push_attr" -> [el EXCEPT !.attrs = Append(el.attrs, <<ClassKey, <<"i", "n", "p", "u", "t">>>>)]
    [] f = "append_child" -> [el EXCEPT !.children = Append(el.children, AppendedChild(el))]
    [] f = "append_wrapped" ->
         [el EXCEPT !.children = Append(el.children, Element(<<"x">>, <<>>, <<AppendedChild(el)>>))]
    [] f = "append_marked" ->
         IF \E i \in 1..Len(el.attrs) : el.attrs[i][1] = SeenKey
         THEN el
         ELSE [el EXCEPT !.children =
                 Append(el.children, Element(el.name, Append(el.attrs, <<SeenKey, <<>>>>), <<>>))]
    [] f = "clear_children" -> [el EXCEPT !.children = <<>>]

Visitors == { "push_attr", "append_child", "append_wrapped", "append_marked", "clear_children" }

\* The test of insert_to and remove_by in place of execute_for's.
ExecuteMatchesShape(sel, el) == Matches(sel, ShapeOf(el))

\* The test that decides whether an element is visited.
ExecuteMatches(sel, el) == Matches(sel, el)

\* The children element_execute_for_internal descends into after the visit:
\* those of the element as the visitor left it.
DescendInto(el, visited) == visited.children

RECURSIVE nodes_execute_for_loop(_, _, _, _, _, _, _), element_execute_for_internal(_, _, _, _, _, _)
\* The for loop of nodes_execute_for_internal, about to process member i.
nodes_execute_for_loop(nodes, i, sel, f, path, depth, calls) ==
  IF i > Len(nodes) THEN [nodes |-> nodes, overflow |-> FALSE, calls |-> calls]
  ELSE IF ~IsElement(nodes[i])
  THEN nodes_execute_for_loop(nodes, i + 1, sel, f, path, depth, calls)
  ELSE LET sub == element_execute_for_internal(nodes[i], sel, f, Append(path, i), depth + 1, calls)
           done == [nodes EXCEPT ![i] = sub.el]
       IN IF sub.overflow
          THEN [nodes |-> done, overflow |-> TRUE, calls |-> sub.calls]
          ELSE nodes_execute_for_loop(done, i + 1, sel, f, path, depth, sub.calls)

nodes_execute_for_internal(nodes, sel, f, path, depth, calls) ==
  nodes_execute_for_loop(nodes, 1, sel, f, path, depth, calls)

element_execute_for_internal(el, sel, f, path, depth, calls) ==
  IF depth > StackLimit THEN [el |-> el, overflow |-> TRUE, calls |-> calls]
  ELSE LET hit == ExecuteMatches(sel, el)
           visited == IF hit THEN Visit(f, el) ELSE el
           logged == IF hit THEN Append(calls, [path |-> path, el |-> el]) ELSE calls
           r == nodes_execute_for_internal(DescendInto(el, visited), sel, f, path, depth, logged)
       IN [el |-> [visited EXCEPT !.children = r.nodes], overflow |-> r.overflow, calls |-> r.calls]

(***************************************************************************)
(* The documents the operations are run on                                 *)
(***************************************************************************)
\* The blank text holds a CRLF line end and a no-break space; U+200B (zero
\* width space) is no White_Space character.
TrimLeaves ==
  { Doctype(<<"h", "t", "m", "l">>), Comment(<<"c">>),
    Text(<<" ", "\r", "\n", "U+00A0">>), Text(<<"\f", "x", " ">>), Text(<<"U+200B">>) }
TrimLabels == { <<<<"a">>, <<>>>> }

EditLeaves == { Text(<<"x">>) }
EditLabels ==
  { <<<<"a">>, <<>>>>, <<<<"b">>, <<>>>>, <<<<"b">>, << <<ClassKey, <<"x">>>> >> >> }

RECURSIVE TreesOf(_, _, _), ForestsOf(_, _, _)
\* The trees of exactly n nodes.
TreesOf(n, leaves, labels) ==
  IF n = 1
  THEN leaves \cup { Element(l[1], l[2], <<>>) : l \in labels }
  ELSE { Element(l[1], l[2], f) : l \in labels, f \in ForestsOf(n - 1, leaves, labels) }
\* The sequences of trees of exactly n nodes in total.
ForestsOf(n, leaves, labels) ==
  IF n = 0 THEN { <<>> }
  ELSE UNION { { <<t>> \o f : t \in TreesOf(k, leaves, labels),
                              f \in ForestsOf(n - k, leaves, labels) } : k \in 1..n }

Forests(leaves, labels) == UNION { ForestsOf(n, leaves, labels) : n \in 0..MaxNodes }

Documents == Forests(TrimLeaves, TrimLabels) \cup Forests(EditLeaves, EditLabels)

\* A receiver is a Vec<Node> or a single Element.
Receivers ==
  { [kind |-> "Vec", nodes |-> d] : d \in Documents }
  \cup { [kind |-> "Element", nodes |-> d] : d \in { e \in Documents : Len(e) = 1 /\ IsElement(e[1]) } }

Targets == { Text(<<"!">>), Element(<<"a">>, <<>>, <<>>) }

VARIABLES
  self,     \* the receiver: [kind, nodes]; an Element receiver is the one-member sequence <<element>>
  before,   \* the receiver as it was when the last operation was called
  op,       \* the last operation called: its name and its arguments
  status,   \* how the last operation ended: "ok", "err" (replace_with's Err), "panic" or "overflow"
  calls     \* the calls the last operation made to its callback, in order

vars == <<self, before, op, status, calls>>

Init ==
  /\ self \in Receivers
  /\ before = self
  /\ op = [name |-> "none"]
  /\ status = "ok"
  /\ calls = <<>>

\* trim may be called again on what trim returned (.trim().trim()).
DoTrim ==
  /\ op.name \in {"none", "trim"}
  /\ before' = self
  /\ op' = [name |-> "trim", nth |-> IF op.name = "trim" THEN 2 ELSE 1]
  /\ self' = IF self.kind = "Vec"
             THEN [self EXCEPT !.nodes = VecTrim(self.nodes)]
             ELSE [self EXCEPT !.nodes = <<ElementTrim(self.nodes[1])>>]
  /\ UNCHANGED <<status, calls>>

DoInsertTo ==
  /\ op.name = "none"
  /\ \E sel \in Selectors, target \in Targets :
       /\ op' = [name |-> "insert_to", sel |-> sel, target |-> target]
       /\ self' = IF self.kind = "Vec"
                  THEN [self EXCEPT !.nodes = VecInsertTo(self.nodes, sel, target)]
                  ELSE [self EXCEPT !.nodes = <<ElementInsertTo(self.nodes[1], sel, target)>>]
  /\ before' = self
  /\ UNCHANGED <<status, calls>>

DoRemoveBy ==
  /\ op.name = "none"
  /\ \E sel \in Selectors :
       /\ op' = [name |-> "remove_by", sel |-> sel]
       /\ self' = IF self.kind = "Vec"
                  THEN [self EXCEPT !.nodes = VecRemoveBy(self.nodes, sel)]
                  ELSE [self EXCEPT !.nodes = <<ElementRemoveBy(self.nodes[1], sel)>>]
  /\ before' = self
  /\ UNCHANGED <<status, calls>>

DoReplaceWith ==
  /\ op.name = "none"
  /\ \E sel \in Selectors, f \in Transforms :
       LET r == IF self.kind = "Vec"
                THEN VecReplaceWith(self.nodes, sel, f, <<>>, <<>>)
                ELSE LET e == ElementReplaceWith(self.nodes[1], sel, f, <<1>>, <<>>)
                     IN [nodes |-> <<e.el>>, ok |-> e.ok, panic |-> e.panic, calls |-> e.calls]
       IN /\ op' = [name |-> "replace_with", sel |-> sel, f |-> f]
          /\ self' = [self EXCEPT !.nodes = r.nodes]
          /\ status' = IF r.panic THEN "panic" ELSE IF r.ok THEN "ok" ELSE "err"
          /\ calls' = r.calls
  /\ before' = self

DoExecuteFor ==
  /\ op.name = "none"
  /\ \E sel \in Selectors, f \in Visitors :
       LET r == IF self.kind = "Vec"
                THEN nodes_execute_for_internal(self.nodes, sel, f, <<>>, 0, <<>>)
                ELSE LET e == element_execute_for_internal(self.nodes[1], sel, f, <<1>>, 1, <<>>)
                     IN [nodes |-> <<e.el>>, overflow |-> e.overflow, calls |-> e.calls]
       IN /\ op' = [name |-> "execute_for", sel |-> sel, f |-> f]
          /\ self' = [self EXCEPT !.nodes = r.nodes]
          /\ status' = IF r.overflow THEN "overflow" ELSE "ok"
          /\ calls' = r.calls
  /\ before' = self

Next == DoTrim \/ DoInsertTo \/ DoRemoveBy \/ DoReplaceWith \/ DoExecuteFor

Spec == Init /\ [][Next]_vars

(***************************************************************************)
(* Vocabulary of the properties: positions in a document                   *)
(***************************************************************************)
\* The paths (sequences of member indices, outermost first) of all nodes.
RECURSIVE Paths(_)
Paths(nodes) ==
  UNION { {<<i>>} \cup (IF IsElement(nodes[i])
                        THEN { <<i>> \o q : q \in Paths(nodes[i].children) }
                        ELSE {}) : i \in 1..Len(nodes) }

RECURSIVE NodeAt(_, _)
NodeAt(nodes, p) ==
  IF Len(p) = 1 THEN nodes[p[1]] ELSE NodeAt(nodes[p[1]].children, Tail(p))

ElementPaths(nodes) == { p \in Paths(nodes) : IsElement(NodeAt(nodes, p)) }

\* The proper prefixes of p that are paths themselves.
Ancestors(p) == { SubSeq(p, 1, k) : k \in 1..(Len(p) - 1) }

\* A node without its children.
Label(node) == IF IsElement(node) THEN [node EXCEPT !.children = <<>>] ELSE node

\* The nodes in document order, each with its path and without its children.
RECURSIVE Outline(_, _)
Outline(nodes, prefix) ==
  IF nodes = <<>> THEN <<>>
  ELSE LET p == Append(prefix, 1)
           first == <<[path |-> p, node |-> Label(nodes[1])]>>
                    \o (IF IsElement(nodes[1]) THEN Outline(nodes[1].children, p) ELSE <<>>)
           rest == Outline(Tail(nodes), prefix)
       IN first \o [k \in 1..Len(rest) |->
                      [rest[k] EXCEPT !.path[Len(prefix) + 1] = @ + 1]]

\* An outline reduced to what identifies the tree's shape: depth and label.
Shape(outline) ==
  [k \in 1..Len(outline) |-> [depth |-> Len(outline[k].path), node |-> outline[k].node]]

RECURSIVE NodeCount(_)
NodeCount(nodes) ==
  IF nodes = <<>> THEN 0
  ELSE 1 + (IF IsElement(nodes[1]) THEN NodeCount(nodes[1].children) ELSE 0)
         + NodeCount(Tail(nodes))

\* The selector's answer on an element's name and attributes alone.
ShapeMatch(sel, el) == Matches(sel, [el EXCEPT !.children = <<>>])

(***************************************************************************)
(* C10  trim                                                               *)
(***************************************************************************)
IsBlank(s) == \A k \in 1..Len(s) : IsWhitespace(s[k])

TrimDrops(node) ==
  node.kind = "Comment" \/ (node.kind = "Text" /\ IsBlank(node.text))

\* C10: trim removes, at every depth, exactly the Comment nodes and the Text
\* nodes that hold only whitespace; every other node is kept unchanged and
\* in order; and trim applied to what trim returned changes nothing.
C10_TrimExact ==
  op.name = "trim" =>
    /\ LET Kept(e) == ~TrimDrops(e.node)
       IN Shape(Outline(self.nodes, <<>>)) = Shape(SelectSeq(Outline(before.nodes, <<>>), Kept))
    /\ op.nth = 2 => self = before

\* A first trim that removed a nested Text holding a carriage return and
\* kept a nested Text.
C10_Witness ==
  /\ op.name = "trim" /\ op.nth = 1
  /\ \E p \in Paths(before.nodes) :
       /\ Len(p) = 2 /\ p \notin Paths(self.nodes)
       /\ NodeAt(before.nodes, p).kind = "Text"
       /\ \E k \in 1..Len(NodeAt(before.nodes, p).text) : NodeAt(before.nodes, p).text[k] = "\r"
  /\ \E p \in Paths(self.nodes) : Len(p) = 2 /\ NodeAt(self.nodes, p).kind = "Text"

(***************************************************************************)
(* C5, C6  insert_to                                                       *)
(***************************************************************************)
\* The element at p of the document before the call has one child more
\* after it.
Gained(p) ==
  /\ p \in ElementPaths(self.nodes)
  /\ Len(NodeAt(self.nodes, p).children) = Len(NodeAt(before.nodes, p).children) + 1

\* C5: insert_to gives the insertion to an element exactly when the selector
\* accepts the element's name and attributes with the children disregarded,
\* for every element of the receiver, the root of an Element receiver
\* included.
C5_InsertByShape ==
  op.name = "insert_to" =>
    \A p \in ElementPaths(before.nodes) :
      Gained(p) <=> ShapeMatch(op.sel, NodeAt(before.nodes, p))

\* The number of elements the selector accepts by name and attributes.
ShapeMatchCount(nodes, sel) ==
  Cardinality({ p \in ElementPaths(nodes) : ShapeMatch(sel, NodeAt(nodes, p)) })

\* C6: insert_to on a node sequence appends exactly one copy of the target
\* as the last child of each of the k elements the selector accepts by name
\* and attributes, k copies in all; every other node keeps its place, name,
\* attributes and text, and the copies are left as the target was.
C6_InsertExact ==
  (op.name = "insert_to" /\ self.kind = "Vec") =>
    /\ Len(self.nodes) = Len(before.nodes)
    /\ \A p \in Paths(before.nodes) :
         /\ p \in Paths(self.nodes)
         /\ LET b == NodeAt(before.nodes, p)
                a == NodeAt(self.nodes, p)
            IN /\ Label(a) = Label(b)
               /\ IsElement(b) =>
                    IF ShapeMatch(op.sel, b)
                    THEN /\ Len(a.children) = Len(b.children) + 1
                         /\ a.children[Len(a.children)] = op.target
                    ELSE Len(a.children) = Len(b.children)
    /\ NodeCount(self.nodes) =
         NodeCount(before.nodes)
           + ShapeMatchCount(before.nodes, op.sel) * NodeCount(<<op.target>>)

\* insert_to on a node sequence where an element and one of its descendants
\* both take the insertion, and the target is an element the selector
\* accepts as well.
C6_Witness ==
  /\ op.name = "insert_to" /\ self.kind = "Vec"
  /\ IsElement(op.target) /\ ShapeMatch(op.sel, op.target)
  /\ \E p \in ElementPaths(before.nodes) :
       /\ Len(p) = 2 /\ Gained(p) /\ Gained(SubSeq(p, 1, 1))
       /\ \E q \in ElementPaths(before.nodes) : ~Gained(q)

(***************************************************************************)
(* C7  remove_by                                                           *)
(***************************************************************************)
\* C7 as stated: after remove_by no element left in the receiver, at any
\* depth and the root of an Element receiver included, is accepted by the
\* selector on its name and attributes.
C7_NoMatchSurvives ==
  op.name = "remove_by" =>
    \A p \in ElementPaths(self.nodes) : ~ShapeMatch(op.sel, NodeAt(self.nodes, p))

\* The paths remove_by tests: all of a node sequence, all but the root of an
\* Element receiver.
Tested(p) == self.kind = "Vec" \/ Len(p) > 1

\* The node at p of the document before the call, or one of its ancestors,
\* is an element remove_by tests and the selector accepts.
Removed(p) ==
  \E q \in Ancestors(p) \cup {p} :
    /\ Tested(q)
    /\ IsElement(NodeAt(before.nodes, q))
    /\ ShapeMatch(op.sel, NodeAt(before.nodes, q))

\* C7 amended: the root of an Element receiver is never tested nor removed;
\* every other element the selector accepts by name and attributes is
\* absent with its whole subtree, nothing else is removed, and no accepted
\* element other than that root is left.
C7_RemoveExact ==
  op.name = "remove_by" =>
    /\ LET Kept(e) == ~Removed(e.path)
       IN Shape(Outline(self.nodes, <<>>)) = Shape(SelectSeq(Outline(before.nodes, <<>>), Kept))
    /\ \A p \in ElementPaths(self.nodes) :
         Tested(p) => ~ShapeMatch(op.sel, NodeAt(self.nodes, p))

\* remove_by on an Element receiver whose root the selector accepts, with an
\* accepted child that had a child of its own: the root stays, the child
\* and its subtree are gone.
C7_Witness ==
  /\ op.name = "remove_by" /\ self.kind = "Element"
  /\ ShapeMatch(op.sel, self.nodes[1])
  /\ \E p \in Paths(before.nodes) : Len(p) = 3 /\ Removed(p)
  /\ self.nodes[1].children = <<>>

(***************************************************************************)
(* C1 - C4  replace_with                                                   *)
(***************************************************************************)
\* The level replace_with scans for failures it reports: the receiver's
\* members, or the children of an Element receiver (as paths' prefix).
Level == IF self.kind = "Vec" THEN <<>> ELSE <<1>>

Scanned == { p \in Paths(before.nodes) : Len(p) = Len(Level) + 1 }

TrueMatch(p) ==
  /\ IsElement(NodeAt(before.nodes, p))
  /\ Matches(op.sel, NodeAt(before.nodes, p))

FailsAt(p) == TrueMatch(p) /\ TransformFails(op.f, NodeAt(before.nodes, p))

Last(p) == p[Len(p)]

\* C1: when the transform fails on a matching direct member of a node
\* sequence, replace_with returns the failure; the first such member is
\* still there unchanged, every member after it is unchanged and the
\* transform was not called on it or below it, and every matching member
\* before it holds the replacement the transform returned for it.
C1_FailureLeaves ==
  (op.name = "replace_with" /\ self.kind = "Vec" /\ \E p \in Scanned : FailsAt(p)) =>
    LET i == CHOOSE i \in 1..Len(before.nodes) :
               FailsAt(<<i>>) /\ \A j \in 1..(i - 1) : ~FailsAt(<<j>>)
    IN /\ status = "err"
       /\ Len(self.nodes) = Len(before.nodes)
       /\ self.nodes[i] = before.nodes[i]
       /\ \A j \in (i + 1)..Len(before.nodes) :
            /\ self.nodes[j] = before.nodes[j]
            /\ \A k \in 1..Len(calls) : calls[k].path[1] # j
       /\ \A j \in 1..(i - 1) :
            TrueMatch(<<j>>) => self.nodes[j] = TransformNode(op.f, before.nodes[j])

\* A failure on the second member: the first was replaced and stays
\* replaced, the second is untouched.
C1_Witness ==
  /\ op.name = "replace_with" /\ self.kind = "Vec" /\ status = "err"
  /\ Len(before.nodes) >= 2
  /\ TrueMatch(<<1>>) /\ ~FailsAt(<<1>>) /\ FailsAt(<<2>>)
  /\ self.nodes[1] # before.nodes[1]
  /\ self.nodes[2] = before.nodes[2]

\* C2: replace_with returns a failure exactly when the transform fails on a
\* matching element of the scanned level; a failure below a member that does
\* not match is dropped, and the call still replaces every matching member
\* of the scanned level and returns success.
C2_FailureIffSameLevel ==
  op.name = "replace_with" =>
    /\ status = "err" <=> \E p \in Scanned : FailsAt(p)
    /\ status = "ok" =>
         \A p \in Scanned :
           TrueMatch(p) =>
             /\ p \in Paths(self.nodes)
             /\ NodeAt(self.nodes, p) = TransformNode(op.f, NodeAt(before.nodes, p))

\* The transform failed below a first member that does not match, the second
\* member was replaced all the same and the call returned success.
C2_Witness ==
  /\ op.name = "replace_with" /\ self.kind = "Vec" /\ status = "ok"
  /\ \E k \in 1..Len(calls) :
       /\ Len(calls[k].path) = 2 /\ calls[k].path[1] = 1
       /\ TransformFails(op.f, calls[k].el)
  /\ Len(before.nodes) = 2 /\ TrueMatch(<<2>>)
  /\ self.nodes[2] # before.nodes[2]

\* C3 as stated: when replace_with on a node sequence returns success, every
\* element of the document that matched and had no matching ancestor has
\* been replaced, where it stood, by what the transform returns for it.
C3_AllReplaced ==
  (op.name = "replace_with" /\ self.kind = "Vec" /\ status = "ok") =>
    \A p \in ElementPaths(before.nodes) :
      (TrueMatch(p) /\ \A q \in Ancestors(p) : ~TrueMatch(q)) =>
        /\ ~TransformFails(op.f, NodeAt(before.nodes, p))
        /\ p \in Paths(self.nodes)
        /\ NodeAt(self.nodes, p) = TransformNode(op.f, NodeAt(before.nodes, p))

\* C4: the transform is called at most once per element of the document as
\* it was before the call, on that element as it was, only when it matches,
\* never below an element that matched and never on a node the transform
\* returned.  (The root of an Element receiver is not part of what the call
\* scans: it is never tested, so it is no element that matched.)
C4_TransformCalls ==
  op.name = "replace_with" =>
    \A k \in 1..Len(calls) :
      LET p == calls[k].path
      IN /\ p \in ElementPaths(before.nodes)
         /\ calls[k].el = NodeAt(before.nodes, p)
         /\ Matches(op.sel, calls[k].el)
         /\ \A q \in Ancestors(p) : Len(q) > Len(Level) => ~TrueMatch(q)
         /\ \A j \in 1..Len(calls) : j # k => calls[j].path # p

\* One call only, on a matching element that has a matching child, and the
\* node the transform returned matches too.
C4_Witness ==
  /\ op.name = "replace_with" /\ status = "ok"
  /\ Len(calls) = 1
  /\ \E p \in ElementPaths(before.nodes) :
       /\ Ancestors(p) # {} /\ TrueMatch(p)
       /\ \A q \in Ancestors(p) : TrueMatch(q) /\ Len(q) > Len(Level)
  /\ \E p \in ElementPaths(self.nodes) :
       p = calls[1].path /\ Matches(op.sel, NodeAt(self.nodes, p))

(***************************************************************************)
(* C8, C9  execute_for, and completion of the other operations             *)
(***************************************************************************)
\* C8: trim, insert_to, remove_by and execute_for always run to completion
\* and never fail, whatever the selector and whatever the visitor does to
\* the attributes and children of the element it is handed.
C8_AlwaysCompletes ==
  op.name \in {"trim", "insert_to", "remove_by", "execute_for"} => status = "ok"

\* The visitor leaves the structure of the document and the selector's
\* answer on every element as they are.
VisitorPreserves ==
  \A p \in ElementPaths(before.nodes) :
    LET el == NodeAt(before.nodes, p)
        visited == Visit(op.f, el)
    IN /\ visited.children = el.children
       /\ visited.name = el.name
       /\ Matches(op.sel, visited) = Matches(op.sel, el)

\* C9: with a visitor that changes neither the structure nor any match,
\* execute_for calls the visitor exactly once on every matching element at
\* every depth, on no other node, in document order (an element before its
\* descendants, a sibling's subtree before the next sibling), descending
\* into matched elements as well.
C9_VisitsInPreOrder ==
  (op.name = "execute_for" /\ VisitorPreserves) =>
    LET Hit(e) == IsElement(e.node) /\ Matches(op.sel, NodeAt(before.nodes, e.path))
        hits == SelectSeq(Outline(before.nodes, <<>>), Hit)
    IN /\ status = "ok"
       /\ Len(calls) = Len(hits)
       /\ \A k \in 1..Len(hits) :
            /\ calls[k].path = hits[k].path
            /\ calls[k].el = NodeAt(before.nodes, hits[k].path)

\* A visit of an element and then of its child, both matching, with a
\* sibling that does not match and is not visited; the visitor changed the
\* visited elements.
C9_Witness ==
  /\ op.name = "execute_for" /\ VisitorPreserves /\ self # before
  /\ Len(calls) = 2
  /\ calls[2].path = Append(calls[1].path, 1)
  /\ Cardinality(ElementPaths(before.nodes)) = 3
====
